---- MODULE Spec2Model ----
(***************************************************************************)
(* DFCRM - Dynamic Fraud Contamination & Recovery Model.                   *)
(*                                                                         *)
(* A model of the scoring engine (src/engine/drift.py,                     *)
(* src/engine/contamination.py), of the real-time transaction endpoint     *)
(* (src/api/main.py) and of the seeded graph (src/data/generator.py).      *)
(*                                                                         *)
(* Numbers.  Every score the program stores or returns has been through    *)
(* round(x, 4), so a score is modelled as an integer count of 1e-4 units   *)
(* (Scale units = 1.0).  Money is modelled in cents.  A float that is      *)
(* not-a-number is the value NaN; every comparison with it is false, as    *)
(* in IEEE 754.  An absent (null) hop distance is the value None.          *)
(***************************************************************************)
EXTENDS Integers, Sequences, FiniteSets, TLC

\* round(x, 4): four decimals, so 1.0 is 10^4 units.
Scale == 10^4

\* float('nan'), Python's None and a raised exception, as values apart from
\* every number the model computes or takes as an input.
NaN == 0 - 10^9
None == NaN - 1
Raised == NaN - 2

(***************************************************************************)
(* Bounds of the model.                                                    *)
(***************************************************************************)
\* Hop arguments tried on compute_contamination_score: None and 0..MaxHopInput.
MaxHopInput == 6

\* The accounts of the store are 1 .. NumAccounts.
NumAccounts == 3

\* The accounts of the store whose hop distances are queried, and the number
\* of transactions seeded into it.
NumHopAccounts == 6
MaxSeedTxns == 5

\* The transaction events served concurrently, and the passes run.
MaxRequests == 2
MaxPasses == 2

\* The steps a temporal simulation is asked for.
MaxSteps == 2

(***************************************************************************)
(* Float helpers.                                                          *)
(***************************************************************************)
\* a < b on floats: false when either side is NaN.
FloatLt(a, b) == a # NaN /\ b # NaN /\ a < b

\* a >= b on floats: false when either side is NaN.
FloatGe(a, b) == a # NaN /\ b # NaN /\ a >= b

\* Python's min(a, b): b if b < a, else a (so min(nan, 1.0) is nan).
PyMin(a, b) == IF FloatLt(b, a) THEN b ELSE a

\* Python's max(a, b): b if b > a, else a.
PyMax(a, b) == IF FloatLt(a, b) THEN b ELSE a

\* round(n/d, 4-decimal units) for n >= 0, d > 0: nearest, ties to even.
RoundDiv(n, d) ==
    LET q == n \div d
        r == n % d
    IN  IF 2 * r < d THEN q
        ELSE IF 2 * r > d THEN q + 1
        ELSE IF q % 2 = 0 THEN q ELSE q + 1

(***************************************************************************)
(* src/engine/contamination.py: configuration.                             *)
(***************************************************************************)
ALPHA == 6000
BETA == 4000
HOP_SCORE_1 == 10000
HOP_SCORE_2 == 6000
HOP_SCORE_3 == 3000
HOP_SCORE_4 == 1000
HOP_SCORE_DEFAULT == 500
THRESHOLD_CRITICAL == 7500
THRESHOLD_EXPOSED == 4500

\* HOP_SCORES with the scores of hops 2 and 3 exchanged.
HOP_SCORES_get_swapped(hop_distance) ==
    CASE hop_distance = 1 -> HOP_SCORE_1
      [] hop_distance = 2 -> HOP_SCORE_3
      [] hop_distance = 3 -> HOP_SCORE_2
      [] hop_distance = 4 -> HOP_SCORE_4
      [] OTHER -> HOP_SCORE_DEFAULT

\* HOP_SCORES.get(hop_distance, 0.05)
HOP_SCORES_get(hop_distance) ==
    CASE hop_distance = 1 -> HOP_SCORE_1
      [] hop_distance = 2 -> HOP_SCORE_2
      [] hop_distance = 3 -> HOP_SCORE_3
      [] hop_distance = 4 -> HOP_SCORE_4
      [] OTHER -> HOP_SCORE_DEFAULT

\* compute_contamination_score without the test for None: an absent hop
\* distance falls through to the table's default.
compute_contamination_score_no_none(hop_distance, drift_score) ==
    LET risk == IF drift_score = NaN THEN NaN
                ELSE ALPHA * HOP_SCORES_get(hop_distance) + BETA * drift_score
        capped == PyMin(risk, Scale * Scale)
    IN  IF capped = NaN THEN NaN ELSE RoundDiv(capped, Scale)

\* compute_contamination_score(hop_distance, drift_score)
compute_contamination_score(hop_distance, drift_score) ==
    LET structural_score == IF hop_distance = None THEN 0
                            ELSE HOP_SCORES_get(hop_distance)
        \* risk in units of 1e-8; nan when the drift is nan
        risk == IF drift_score = NaN THEN NaN
                ELSE ALPHA * structural_score + BETA * drift_score
        capped == PyMin(risk, Scale * Scale)
    IN  IF capped = NaN THEN NaN ELSE RoundDiv(capped, Scale)

\* classify_zone with strict comparisons: a boundary falls to the lower tier.
classify_zone_strict(risk_score) ==
    IF FloatLt(THRESHOLD_CRITICAL, risk_score) THEN "Critical"
    ELSE IF FloatLt(THRESHOLD_EXPOSED, risk_score) THEN "Exposed"
    ELSE "Clean"

\* classify_zone(risk_score)
classify_zone(risk_score) ==
    IF FloatGe(risk_score, THRESHOLD_CRITICAL) THEN "Critical"
    ELSE IF FloatGe(risk_score, THRESHOLD_EXPOSED) THEN "Exposed"
    ELSE "Clean"

(***************************************************************************)
(* State: the graph store (the Account nodes' properties and the           *)
(* Transaction nodes with their SENT and RECEIVED relationships).          *)
(***************************************************************************)
VARIABLES
    is_fraud,             \* a.is_fraud of every Account node
    txns,                 \* the Transaction nodes, each with its sender (SENT)
                          \* and its receiver (RECEIVED)
    fingerprint,          \* a.hour_vector, a.amount_mean, ... of every account
    drift_score,          \* a.drift_score
    contamination_score,  \* a.contamination_score
    zone,                 \* a.zone
    hop_distance,         \* a.hop_distance (None while never written)
    last_updated,         \* a.last_updated: the invocation that stamped it
    origin,               \* history: the invocation each RiskState field is from
    req,                  \* the POST /transaction requests in progress
    pass,                 \* run_full_contamination_pass: its locals
    reports,              \* the zone counts each completed pass printed
    probe,  \* the last direct call of an engine function and what it returned
    rebuild,              \* run_all_accounts: its locals
    sims,                 \* the simulate_temporal_risk calls: their locals
    rng                   \* the state of the process-wide random module

store == <<is_fraud, txns, fingerprint, drift_score, contamination_score,
           zone, hop_distance, last_updated, origin>>

procs == <<req, pass, reports>>

\* The fingerprint rebuild, the simulations and the random module.
tools == <<rebuild, sims, rng>>

vars == <<is_fraud, txns, fingerprint, drift_score, contamination_score,
          zone, hop_distance, last_updated, origin, req, pass, reports, probe,
          rebuild, sims, rng>>

\* MATCH (a:Account): the accounts of the store.
Accounts == DOMAIN is_fraud

(***************************************************************************)
(* src/engine/drift.py.                                                    *)
(***************************************************************************)
\* An account whose amount_mean is null: get_fingerprint returns None.
NoFingerprint ==
    [present |-> FALSE, hour_vector |-> <<>>, amount_mean |-> 0,
     amount_std |-> 0, daily_velocity |-> 0]

\* get_fingerprint(account_id)
get_fingerprint(account_id) == fingerprint[account_id]

\* The valid indexes of a Python list of length n: -n .. n-1.
PyIndexOk(list, i) == i >= 0 - Len(list) /\ i <= Len(list) - 1

\* list[i] in Python: a negative index counts from the end.
PyIndex(list, i) == IF i >= 0 THEN list[i + 1] ELSE list[Len(list) + i + 1]

\* compute_time_drift raises IndexError exactly when the hour is no index of
\* a 24-entry hour vector.
compute_time_drift_raises(fp, new_transaction_hour) ==
    /\ Len(fp.hour_vector) = 24
    /\ ~PyIndexOk(fp.hour_vector, new_transaction_hour)

\* compute_time_drift(fingerprint, new_transaction_hour)
compute_time_drift(fp, new_transaction_hour) ==
    IF Len(fp.hour_vector) # 24 THEN 5000
    ELSE Scale - PyIndex(fp.hour_vector, new_transaction_hour)

\* compute_amount_drift(fingerprint, new_amount); amounts in cents
compute_amount_drift(fp, new_amount) ==
    LET mean == fp.amount_mean
        std == IF fp.amount_std < 100 THEN 100 ELSE fp.amount_std
        dist == IF new_amount >= mean THEN new_amount - mean
                ELSE mean - new_amount
    IN  IF new_amount = NaN THEN NaN
        ELSE IF dist >= 5 * std THEN Scale
        ELSE RoundDiv(2000 * dist, std)

\* compute_velocity_drift(fingerprint, recent_transaction_count)
compute_velocity_drift(fp, recent_transaction_count) ==
    LET baseline_daily == fp.daily_velocity
        over == recent_transaction_count * Scale - baseline_daily
    IN  IF baseline_daily < 5000
        THEN IF recent_transaction_count <= 2 THEN 0
             ELSE IF recent_transaction_count - 2 >= 8 THEN Scale
             ELSE 1250 * (recent_transaction_count - 2)
        ELSE IF over >= 4 * baseline_daily THEN Scale
             ELSE IF over <= 0 THEN 0
             ELSE RoundDiv(Scale * over, 4 * baseline_daily)

\* compute_drift_score without the cold-start return of lines 111-113: the
\* drifts are computed from the empty fingerprint's fields.
compute_drift_score_no_cold_start(account_id, new_transaction) ==
    LET fp == get_fingerprint(account_id)
        time_drift == compute_time_drift(fp, new_transaction.hour)
        amount_drift == compute_amount_drift(fp, new_transaction.amount)
        velocity_drift ==
            compute_velocity_drift(fp, new_transaction.recent_count)
    IN  IF compute_time_drift_raises(fp, new_transaction.hour) THEN Raised
        ELSE IF amount_drift = NaN THEN NaN
        ELSE RoundDiv(3 * time_drift + 4 * amount_drift + 3 * velocity_drift,
                      10)

\* compute_drift_score(account_id, new_transaction): the drift, or Raised
\* when the call ends in an exception.
compute_drift_score(account_id, new_transaction) ==
    LET fp == get_fingerprint(account_id)
        time_drift == compute_time_drift(fp, new_transaction.hour)
        amount_drift == compute_amount_drift(fp, new_transaction.amount)
        velocity_drift ==
            compute_velocity_drift(fp, new_transaction.recent_count)
    IN  IF ~fp.present THEN 5000
        ELSE IF compute_time_drift_raises(fp, new_transaction.hour) THEN Raised
        ELSE IF amount_drift = NaN THEN NaN
        ELSE RoundDiv(3 * time_drift + 4 * amount_drift + 3 * velocity_drift,
                      10)

(***************************************************************************)
(* src/engine/contamination.py: get_hop_distance.  The pattern             *)
(* (a)-[:SENT|RECEIVED*..8]-(f) walks relationships in either direction:   *)
(* from an Account to a Transaction it sent or received, from a            *)
(* Transaction to its sender or its receiver.                              *)
(***************************************************************************)
\* The bound of the variable-length pattern, *..8.
MAX_PATH_LENGTH == 8

\* The cap of the returned hop count, min(hop_count, 4).
MAX_HOP_COUNT == 4

\* The accounts one relationship away from the transactions T.
AccountsOfTransactions(T) ==
    {t.sender : t \in T} \cup {t.receiver : t \in T}

\* The transactions one relationship away from the accounts S, following
\* SENT relationships forwards only.
TransactionsOfAccounts_directed(S) == {t \in txns : t.sender \in S}

\* The transactions one relationship away from the accounts S.
TransactionsOfAccounts(S) ==
    {t \in txns : t.sender \in S \/ t.receiver \in S}

RECURSIVE AccountsAt(_, _)
\* The Account nodes at the end of a walk of `len` relationships from the
\* account a (none when len is odd: the walk then ends at a Transaction).
AccountsAt(a, len) ==
    IF len = 0 THEN {a}
    ELSE IF len % 2 = 1 THEN {}
    ELSE AccountsOfTransactions(TransactionsOfAccounts(AccountsAt(a, len - 2)))

\* The query with f.zone = 'Critical' in the place of f.is_fraud = true.
FraudPathLengths_by_zone(account_id) ==
    {len \in 1 .. MAX_PATH_LENGTH :
        \E f \in AccountsAt(account_id, len) :
            zone[f] = "Critical" /\ f # account_id}

\* The lengths of the paths the query matches: f.is_fraud = true and
\* a.account_id <> f.account_id.
FraudPathLengths(account_id) ==
    {len \in 1 .. MAX_PATH_LENGTH :
        \E f \in AccountsAt(account_id, len) :
            is_fraud[f] /\ f # account_id}

\* The least element of a non-empty set of numbers.
Least(S) == CHOOSE x \in S : \A y \in S : x <= y

\* get_hop_distance(account_id)
get_hop_distance(account_id) ==
    IF FraudPathLengths(account_id) = {} THEN None
    ELSE LET hops == Least(FraudPathLengths(account_id))
             hop_count == (hops + 1) \div 2
         IN  IF hop_count < MAX_HOP_COUNT THEN hop_count ELSE MAX_HOP_COUNT

(***************************************************************************)
(* The seeded store (src/data/generator.py).                               *)
(***************************************************************************)
AccountIds == 1 .. NumAccounts

\* The requests the API serves, each on its own worker thread.
Requests == 1 .. MaxRequests

\* The invocations of update_account_risk: one per request, one per account
\* in each pass; the seeding wrote what no invocation has written yet.
SeedInvocation == [by |-> "seed", n |-> 0]
RequestInvocation(r) == [by |-> "request", n |-> r]
PassInvocation(run) == [by |-> "pass", n |-> run]

\* A request before it is received.
IdleRequest ==
    [pc |-> "idle", sender |-> 0, receiver |-> 0, amount |-> 0, hour |-> 0,
     recent_count |-> 0, drift_score |-> 0, hop_distance |-> None,
     risk_score |-> 0, zone |-> "Clean"]

\* The pass before it is started: run counts the passes completed.
IdlePass ==
    [pc |-> "idle", run |-> 0, todo |-> {}, drift_score |-> <<>>,
     account_id |-> 0, hop_distance |-> None, risk_score |-> 0,
     zone |-> "Clean",
     zone_counts |-> [Critical |-> 0, Exposed |-> 0, Clean |-> 0]]

\* The store after create_accounts and mark_fraud_accounts over the
\* accounts `ids`, holding the transactions `graph`, the fingerprints `fps`
\* and the drift scores `drifts`.
SeededStoreWith(ids, fraud_ids, graph, fps, drifts) ==
    /\ is_fraud = [a \in ids |-> a \in fraud_ids]
    /\ txns = graph
    /\ fingerprint = fps
    /\ drift_score = drifts
    /\ contamination_score =
           [a \in ids |-> IF a \in fraud_ids THEN Scale ELSE 0]
    /\ zone = [a \in ids |-> IF a \in fraud_ids THEN "Critical" ELSE "Clean"]
    /\ hop_distance = [a \in ids |-> None]
    /\ last_updated = [a \in ids |-> SeedInvocation]
    /\ origin = [a \in ids |->
                    [hop_distance |-> SeedInvocation,
                     contamination_score |-> SeedInvocation,
                     zone |-> SeedInvocation]]

\* The store as seeded: create_accounts sets every drift_score to 0.0.
SeededStore(ids, fraud_ids, graph, fps) ==
    SeededStoreWith(ids, fraud_ids, graph, fps, [a \in ids |-> 0])

\* run_all_accounts before it is started.
IdleRebuild ==
    [pc |-> "idle", todo |-> {}, account_id |-> 0, fingerprint |-> NoFingerprint,
     success |-> 0, skipped |-> 0]

\* The two simulate_temporal_risk calls the model follows.
Calls == {1, 2}

\* A simulate_temporal_risk call before it is made.
IdleSim ==
    [pc |-> "idle", steps |-> 0, decay_rate |-> 0, signal_probability |-> 0,
     drift_threshold |-> 0, random_seed |-> 0, from_store |-> TRUE,
     given |-> <<>>, accounts |-> <<>>,
     i |-> 0, t |-> 0, prev_risk |-> 0, results |-> <<>>]

\* Requests not yet received, a pass and a rebuild not yet started, nothing
\* printed, no simulation called, the random module as imported.
IdleProcs ==
    /\ req = [r \in Requests |-> IdleRequest]
    /\ pass = IdlePass
    /\ reports = <<>>
    /\ rebuild = IdleRebuild
    /\ sims = [c \in Calls |-> IdleSim]
    /\ rng = 0

(***************************************************************************)
(* Direct calls of the scoring functions.                                  *)
(***************************************************************************)
HopInputs == {None} \cup (0 .. MaxHopInput)
DriftInputs == 0 .. Scale

\* Drift arguments compared with one another for monotonicity, besides each
\* argument's successor on the grid.
DriftSamples == {0, 1, 2, 3, 2499, 2500, 4999, 5000, 7999, 8000, 9999, Scale}

\* A caller evaluates compute_contamination_score and classify_zone on the
\* arguments chosen at the start.
ScoreCall ==
    /\ probe.op = "score_args"
    /\ LET risk == compute_contamination_score(probe.hop, probe.drift)
       IN  probe' = [op |-> "score", hop |-> probe.hop, drift |-> probe.drift,
                     risk |-> risk, zone |-> classify_zone(risk)]
    /\ UNCHANGED <<store, procs, tools>>

\* A caller evaluates classify_zone on the risk chosen at the start.
ZoneCall ==
    /\ probe.op = "zone_args"
    /\ probe' = [op |-> "zone", risk |-> probe.risk,
                 zone |-> classify_zone(probe.risk)]
    /\ UNCHANGED <<store, procs, tools>>

InitScore ==
    /\ SeededStore({}, {}, {}, <<>>)
    /\ IdleProcs
    /\ \/ \E hop \in HopInputs, drift \in DriftInputs :
            probe = [op |-> "score_args", hop |-> hop, drift |-> drift]
       \/ \E risk \in 0 .. Scale :
            probe = [op |-> "zone_args", risk |-> risk]

NextScore == ScoreCall \/ ZoneCall

SpecScore == InitScore /\ [][NextScore]_vars

(***************************************************************************)
(* Fingerprints that compute_fingerprint stores.                           *)
(***************************************************************************)
\* A 24-bucket hour vector with the shares p1 at hour h1 and p2 at hour h2.
HourVector(h1, p1, h2, p2) ==
    [i \in 1 .. 24 |-> IF i - 1 = h1 THEN p1 ELSE IF i - 1 = h2 THEN p2 ELSE 0]

\* compute_fingerprint over three transactions, at 9h, 9h and 14h, of mean
\* 100.00 and std 20.00 (+0.01): velocity 3/90.
FpSparse ==
    [present |-> TRUE, hour_vector |-> HourVector(9, 6667, 14, 3333),
     amount_mean |-> 10000, amount_std |-> 2001, daily_velocity |-> 333]

\* compute_fingerprint over 45 equal transactions of 50.00, all at 12h:
\* std 0 (+0.01), velocity 45/90.
FpBusy ==
    [present |-> TRUE, hour_vector |-> HourVector(12, Scale, 12, Scale),
     amount_mean |-> 5000, amount_std |-> 1, daily_velocity |-> 5000]

\* A malformed stored fingerprint: no hour vector, a std of zero.
FpMalformed ==
    [present |-> TRUE, hour_vector |-> <<>>,
     amount_mean |-> 0, amount_std |-> 0, daily_velocity |-> 0]

(***************************************************************************)
(* Direct calls of compute_drift_score.                                    *)
(***************************************************************************)
FingerprintInputs == {NoFingerprint, FpSparse, FpBusy, FpMalformed}
AmountInputs == {NaN, 0 - 5000, 0, 10000, 10500, 12001, 1000000}
HourInputs == {0 - 25, 0 - 24, 0 - 1, 0, 9, 14, 23, 24}
CountInputs == {0 - 1, 0, 1, 2, 3, 5, 10, 11}

\* A caller evaluates compute_drift_score on the event chosen at the start.
DriftCall ==
    /\ probe.op = "drift_args"
    /\ probe' = [op |-> "drift", account |-> probe.account,
                 event |-> probe.event,
                 result |-> compute_drift_score(probe.account, probe.event)]
    /\ UNCHANGED <<store, procs, tools>>

InitDrift ==
    \E fp \in FingerprintInputs, amount \in AmountInputs,
       hour \in HourInputs, recent_count \in CountInputs :
        /\ SeededStore(AccountIds, {}, {},
               [a \in AccountIds |-> IF a = 1 THEN fp ELSE NoFingerprint])
        /\ IdleProcs
        /\ probe = [op |-> "drift_args", account |-> 1,
                    event |-> [amount |-> amount, hour |-> hour,
                               recent_count |-> recent_count]]

NextDrift == DriftCall

SpecDrift == InitDrift /\ [][NextDrift]_vars

(***************************************************************************)
(* Seeding transactions and querying hop distances.                        *)
(***************************************************************************)
HopAccountIds == 1 .. NumHopAccounts

\* The sender and receiver pairs seeded: accounts next to each other, in
\* both directions, and accounts two apart.
SeedPairs ==
    {p \in HopAccountIds \X HopAccountIds :
        p[2] - p[1] \in {0 - 1, 1, 2}}

\* create_transactions: one more Transaction node, with its SENT and
\* RECEIVED relationships (a sender never sends to itself).
CreateTransaction ==
    /\ probe.op = "hop_idle"
    /\ Cardinality(txns) < MaxSeedTxns
    /\ \E p \in SeedPairs :
           LET t == [id |-> p[1] * (NumHopAccounts + 1) + p[2],
                     sender |-> p[1], receiver |-> p[2],
                     amount |-> 10000, hour |-> 12, today |-> FALSE]
           IN  /\ t \notin txns
               /\ txns' = txns \cup {t}
    /\ UNCHANGED <<is_fraud, fingerprint, drift_score, contamination_score,
                   zone, hop_distance, last_updated, origin, procs, probe, tools>>

\* A caller evaluates get_hop_distance for every account of the store.
HopCall ==
    /\ probe.op = "hop_idle"
    /\ probe' = [op |-> "hop",
                 result |-> [a \in Accounts |-> get_hop_distance(a)]]
    /\ UNCHANGED <<store, procs, tools>>

InitHop ==
    /\ \E fraud_ids \in {{1}, {1, NumHopAccounts}} :
           SeededStore(HopAccountIds, fraud_ids, {},
                       [a \in HopAccountIds |-> NoFingerprint])
    /\ IdleProcs
    /\ probe = [op |-> "hop_idle"]

NextHop == CreateTransaction \/ HopCall

SpecHop == InitHop /\ [][NextHop]_vars

(***************************************************************************)
(* src/engine/contamination.py: update_account_risk, shared by the         *)
(* real-time path and the batch pass.  Its read (get_hop_distance) and its *)
(* write (one SET statement) are two graph-store transactions.             *)
(***************************************************************************)
\* update_account_risk, lines 107-109: what it is about to store and return.
update_account_risk_result(account_id, drift) ==
    LET hop == get_hop_distance(account_id)
        risk_score == compute_contamination_score(hop, drift)
    IN  [hop_distance |-> hop, drift_score |-> drift,
         risk_score |-> risk_score, zone |-> classify_zone(risk_score)]

\* The SET statement without a.hop_distance.
SetRiskState_without_hop(account_id, result, invocation) ==
    /\ contamination_score' =
           [contamination_score EXCEPT ![account_id] = result.risk_score]
    /\ zone' = [zone EXCEPT ![account_id] = result.zone]
    /\ last_updated' = [last_updated EXCEPT ![account_id] = invocation]
    /\ origin' = [origin EXCEPT ![account_id].contamination_score = invocation,
                                ![account_id].zone = invocation]
    /\ UNCHANGED hop_distance

\* update_account_risk, lines 111-122: the SET statement, one transaction.
SetRiskState(account_id, result, invocation) ==
    /\ contamination_score' =
           [contamination_score EXCEPT ![account_id] = result.risk_score]
    /\ zone' = [zone EXCEPT ![account_id] = result.zone]
    /\ hop_distance' = [hop_distance EXCEPT ![account_id] = result.hop_distance]
    /\ last_updated' = [last_updated EXCEPT ![account_id] = invocation]
    /\ origin' = [origin EXCEPT ![account_id] =
                     [hop_distance |-> invocation,
                      contamination_score |-> invocation,
                      zone |-> invocation]]

(***************************************************************************)
(* src/api/main.py: process_transaction, one step per graph-store          *)
(* transaction.  The endpoint is a plain def, which the server runs on a   *)
(* worker thread per request, so the steps of two requests interleave.     *)
(***************************************************************************)
\* A sender_id that matches no Account node.
UnknownAccount == 0

\* The events posted, as <<amount, hour>>: a usual amount at a usual hour, an
\* amount far from the usual, an amount that is not a number, and an hour past
\* the end of the day.
Events == {<<10000, 9>>, <<1000000, 9>>, <<NaN, 9>>, <<10000, 24>>}

\* The receiver_id posted with a sender: the next account of the store.  The
\* endpoint reads the receiver only to repeat it in its response.
ReceiverOf(sender) == (sender % Cardinality(Accounts)) + 1

\* count(t) of the sender's transactions since midnight, plus this one.
RecentCount(account_id) ==
    Cardinality({t \in txns : t.sender = account_id /\ t.today}) + 1

\* Requests are received in the order of their numbers.
MayReceive(r) ==
    /\ req[r].pc = "idle"
    /\ IF r = 1 THEN TRUE ELSE req[r - 1].pc # "idle"

\* Lines 119-135: the sender exists; its recent transactions are counted.
VerifySender(r) ==
    /\ MayReceive(r)
    /\ \E sender \in Accounts, event \in Events :
           req' = [req EXCEPT ![r] =
                      [@ EXCEPT !.pc = "verified", !.sender = sender,
                                !.receiver = ReceiverOf(sender),
                                !.amount = event[1], !.hour = event[2],
                                !.recent_count = RecentCount(sender)]]
    /\ UNCHANGED <<store, pass, reports, probe, tools>>

\* The 404 path saving the neutral drift score on the receiver's node.
RejectUnknownSender_saves_receiver(r) ==
    /\ MayReceive(r)
    /\ req' = [req EXCEPT ![r] =
                  [@ EXCEPT !.pc = "rejected", !.sender = UnknownAccount,
                            !.receiver = ReceiverOf(UnknownAccount),
                            !.amount = 10000, !.hour = 9]]
    /\ drift_score' = [drift_score EXCEPT ![ReceiverOf(UnknownAccount)] = 5000]
    /\ UNCHANGED <<is_fraud, txns, fingerprint, contamination_score, zone,
                   hop_distance, last_updated, origin, pass, reports, probe, tools>>

\* Lines 125-126: no such sender, HTTP 404.
RejectUnknownSender(r) ==
    /\ MayReceive(r)
    /\ req' = [req EXCEPT ![r] =
                  [@ EXCEPT !.pc = "rejected", !.sender = UnknownAccount,
                            !.receiver = ReceiverOf(UnknownAccount),
                            !.amount = 10000, !.hour = 9]]
    /\ UNCHANGED <<store, pass, reports, probe, tools>>

\* The new_txn of lines 138-142.
NewTxn(r) ==
    [amount |-> req[r].amount, hour |-> req[r].hour,
     recent_count |-> req[r].recent_count]

\* Line 144: compute_drift_score returns.
ComputeDrift(r) ==
    /\ req[r].pc = "verified"
    /\ compute_drift_score(req[r].sender, NewTxn(r)) # Raised
    /\ req' = [req EXCEPT ![r].pc = "drifted",
                          ![r].drift_score =
                              compute_drift_score(req[r].sender, NewTxn(r))]
    /\ UNCHANGED <<store, pass, reports, probe, tools>>

\* Line 144: compute_drift_score raises; the request ends in HTTP 500.
ComputeDriftRaises(r) ==
    /\ req[r].pc = "verified"
    /\ compute_drift_score(req[r].sender, NewTxn(r)) = Raised
    /\ req' = [req EXCEPT ![r].pc = "failed"]
    /\ UNCHANGED <<store, pass, reports, probe, tools>>

\* Line 145 with the drift score saved on the receiver's node.
SaveDrift_on_receiver(r) ==
    /\ req[r].pc = "drifted"
    /\ drift_score' =
           [a \in Accounts |->
               IF a = req[r].receiver THEN req[r].drift_score
               ELSE drift_score[a]]
    /\ req' = [req EXCEPT ![r].pc = "saved"]
    /\ UNCHANGED <<is_fraud, txns, fingerprint, contamination_score, zone,
                   hop_distance, last_updated, origin, pass, reports, probe, tools>>

\* Line 145: save_drift_score.
SaveDrift(r) ==
    /\ req[r].pc = "drifted"
    /\ drift_score' = [drift_score EXCEPT ![req[r].sender] = req[r].drift_score]
    /\ req' = [req EXCEPT ![r].pc = "saved"]
    /\ UNCHANGED <<is_fraud, txns, fingerprint, contamination_score, zone,
                   hop_distance, last_updated, origin, pass, reports, probe, tools>>

\* Line 148, first half: update_account_risk reads the hop distance and
\* computes the risk and the zone.
RequestScore(r) ==
    /\ req[r].pc = "saved"
    /\ LET result == update_account_risk_result(req[r].sender,
                                                req[r].drift_score)
       IN  req' = [req EXCEPT ![r].pc = "scored",
                              ![r].hop_distance = result.hop_distance,
                              ![r].risk_score = result.risk_score,
                              ![r].zone = result.zone]
    /\ UNCHANGED <<store, pass, reports, probe, tools>>

\* Line 148, second half: update_account_risk writes the RiskState; the
\* response of lines 150-159 is returned.
RequestWrite(r) ==
    /\ req[r].pc = "scored"
    /\ SetRiskState(req[r].sender,
                    [hop_distance |-> req[r].hop_distance,
                     risk_score |-> req[r].risk_score, zone |-> req[r].zone],
                    RequestInvocation(r))
    /\ req' = [req EXCEPT ![r].pc = "done"]
    /\ UNCHANGED <<is_fraud, txns, fingerprint, drift_score, pass, reports,
                   probe, tools>>

(***************************************************************************)
(* src/engine/contamination.py: run_full_contamination_pass.  The query    *)
(* returns the accounts in no stated order: the loop takes them in any.    *)
(***************************************************************************)
\* Lines 137-149 without the WHERE a.is_fraud = false of the query.
PassList_all_accounts ==
    /\ pass.pc = "idle"
    /\ pass.run < MaxPasses
    /\ pass' = [pass EXCEPT
                   !.pc = "loop",
                   !.todo = Accounts,
                   !.drift_score = drift_score,
                   !.zone_counts = [Critical |-> 0, Exposed |-> 0, Clean |-> 0]]
    /\ UNCHANGED <<store, req, reports, probe, tools>>

\* Lines 137-149 with the wrong property read: contamination_score in the
\* place of drift_score.
PassList_reads_score ==
    /\ pass.pc = "idle"
    /\ pass.run < MaxPasses
    /\ pass' = [pass EXCEPT
                   !.pc = "loop",
                   !.todo = {a \in Accounts : ~is_fraud[a]},
                   !.drift_score = contamination_score,
                   !.zone_counts = [Critical |-> 0, Exposed |-> 0, Clean |-> 0]]
    /\ UNCHANGED <<store, req, reports, probe, tools>>

\* Lines 137-149: the non-fraud accounts and their stored drift scores.
PassList ==
    /\ pass.pc = "idle"
    /\ pass.run < MaxPasses
    /\ pass' = [pass EXCEPT
                   !.pc = "loop",
                   !.todo = {a \in Accounts : ~is_fraud[a]},
                   !.drift_score = drift_score,
                   !.zone_counts = [Critical |-> 0, Exposed |-> 0, Clean |-> 0]]
    /\ UNCHANGED <<store, req, reports, probe, tools>>

\* Line 152, first half: update_account_risk on the next account, with the
\* drift score the list holds for it.
PassScore ==
    /\ pass.pc = "loop"
    /\ \E a \in pass.todo :
           LET result == update_account_risk_result(a, pass.drift_score[a])
           IN  pass' = [pass EXCEPT !.pc = "write", !.account_id = a,
                                    !.hop_distance = result.hop_distance,
                                    !.risk_score = result.risk_score,
                                    !.zone = result.zone]
    /\ UNCHANGED <<store, req, reports, probe, tools>>

\* Lines 152-153: update_account_risk writes; the zone is counted.
PassWrite ==
    /\ pass.pc = "write"
    /\ SetRiskState(pass.account_id,
                    [hop_distance |-> pass.hop_distance,
                     risk_score |-> pass.risk_score, zone |-> pass.zone],
                    PassInvocation(pass.run + 1))
    /\ pass' = [pass EXCEPT
                   !.pc = "loop",
                   !.todo = @ \ {pass.account_id},
                   !.zone_counts[pass.zone] = @ + 1]
    /\ UNCHANGED <<is_fraud, txns, fingerprint, drift_score, req, reports,
                   probe, tools>>

\* Lines 158-161: the loop is over; the counts are printed.
PassFinish ==
    /\ pass.pc = "loop"
    /\ pass.todo = {}
    /\ reports' = Append(reports, pass.zone_counts)
    /\ pass' = [pass EXCEPT !.pc = "idle", !.run = @ + 1]
    /\ UNCHANGED <<store, req, probe, tools>>

(***************************************************************************)
(* The seeded graphs the system starts from.                               *)
(***************************************************************************)
\* The one confirmed-fraud account.
FraudAccount == 3

\* Account 1 sent three transactions, one of them to the fraud account and
\* today: account 1 is one hop from fraud, account 2 two hops.
GraphConnected ==
    {[id |-> 1, sender |-> 1, receiver |-> 2, amount |-> 7550, hour |-> 9,
      today |-> FALSE],
     [id |-> 2, sender |-> 1, receiver |-> 2, amount |-> 10000, hour |-> 9,
      today |-> FALSE],
     [id |-> 3, sender |-> 1, receiver |-> FraudAccount, amount |-> 12450,
      hour |-> 14, today |-> TRUE]}

\* Account 2 sent one transaction to the fraud account; account 1 none.
GraphLone ==
    {[id |-> 4, sender |-> 2, receiver |-> FraudAccount, amount |-> 10000,
      hour |-> 12, today |-> FALSE]}

\* No fingerprint computed yet.
NoFingerprints == [a \in AccountIds |-> NoFingerprint]

\* run_all_accounts has run: account 1, with three transactions, has one.
Fingerprinted == [NoFingerprints EXCEPT ![1] = FpSparse]

Init ==
    /\ \/ SeededStore(AccountIds, {FraudAccount}, GraphConnected, Fingerprinted)
       \/ SeededStore(AccountIds, {FraudAccount}, GraphLone, NoFingerprints)
    /\ IdleProcs
    /\ probe = [op |-> "none"]

Next ==
    \/ \E r \in Requests :
          \/ VerifySender(r)
          \/ RejectUnknownSender(r)
          \/ ComputeDrift(r)
          \/ ComputeDriftRaises(r)
          \/ SaveDrift(r)
          \/ RequestScore(r)
          \/ RequestWrite(r)
    \/ PassList
    \/ PassScore
    \/ PassWrite
    \/ PassFinish

Spec == Init /\ [][Next]_vars

(***************************************************************************)
(* The batch pass alone, run again and again over a store whose drift      *)
(* scores earlier transaction events have saved.                           *)
(***************************************************************************)
\* Drift scores found stored: the seeded 0.0, scores compute_drift_score
\* returns (0.1, the neutral 0.5, 1.0) and a stored nan.
StoredDrifts == {0, 1000, 5000, Scale, NaN}

InitPass ==
    /\ \E drifts \in [AccountIds -> StoredDrifts] :
           /\ drifts[FraudAccount] = 0
           /\ \/ SeededStoreWith(AccountIds, {FraudAccount}, GraphConnected,
                                  Fingerprinted, drifts)
              \/ SeededStoreWith(AccountIds, {FraudAccount}, GraphLone,
                                  NoFingerprints, drifts)
    /\ IdleProcs
    /\ probe = [op |-> "none"]

NextPass == PassList \/ PassScore \/ PassWrite \/ PassFinish

SpecPass == InitPass /\ [][NextPass]_vars

(***************************************************************************)
(* src/engine/fingerprint.py.  Amounts are in cents, shares and velocities *)
(* in 1e-4 units.                                                          *)
(***************************************************************************)
\* get_account_transactions: the transactions the account sent (SENT) whose
\* timestamp is within the last 90 days.
get_account_transactions(account_id) ==
    {t \in txns : t.sender = account_id /\ t.in_window}

RECURSIVE SumAmounts(_)
\* sum(amounts)
SumAmounts(T) ==
    IF T = {} THEN 0
    ELSE LET t == CHOOSE x \in T : TRUE
         IN  t.amount + SumAmounts(T \ {t})

RECURSIVE SumSquaredDeviations(_, _, _)
\* The sum over T of (n * amount - total)^2, which is n^2 times the sum of
\* the squared deviations from the mean total / n.
SumSquaredDeviations(T, n, total) ==
    IF T = {} THEN 0
    ELSE LET t == CHOOSE x \in T : TRUE
         IN  (n * t.amount - total) * (n * t.amount - total)
                 + SumSquaredDeviations(T \ {t}, n, total)

RECURSIVE SqrtBetween(_, _, _)
\* The largest r in lo .. hi with r * r <= n.
SqrtBetween(lo, hi, n) ==
    IF lo = hi THEN lo
    ELSE LET mid == (lo + hi + 1) \div 2
         IN  IF mid * mid <= n THEN SqrtBetween(mid, hi, n)
             ELSE SqrtBetween(lo, mid - 1, n)

\* The integer part of the square root of n, for n below 2^31.
Sqrt(n) == SqrtBetween(0, 46340, n)

\* round(float(np.std(amounts)) + 0.01, 2) in cents: the population standard
\* deviation sqrt(q / n^3) to the nearest cent, plus one cent.
AmountStd(T) ==
    LET n == Cardinality(T)
        q == SumSquaredDeviations(T, n, SumAmounts(T))
    IN  ((Sqrt(4 * q * n) + n * n) \div (2 * n * n)) + 1

\* hour_vector: per hour 0..23, round(count / total, 4).
HourShares(T) ==
    [i \in 1 .. 24 |->
        RoundDiv(Scale * Cardinality({t \in T : t.hour = i - 1}),
                 Cardinality(T))]

\* The days of history, line 94.
VELOCITY_DAYS == 90

\* compute_fingerprint with the shares taken per day of history, as the
\* velocity is, in place of per transaction.
compute_fingerprint_per_day(account_id) ==
    LET transactions == get_account_transactions(account_id)
    IN  IF Cardinality(transactions) < 3 THEN NoFingerprint
        ELSE [present |-> TRUE,
              hour_vector |->
                  [i \in 1 .. 24 |->
                      RoundDiv(Scale * Cardinality(
                                   {t \in transactions : t.hour = i - 1}),
                               VELOCITY_DAYS)],
              amount_mean |-> RoundDiv(SumAmounts(transactions),
                                       Cardinality(transactions)),
              amount_std |-> AmountStd(transactions),
              daily_velocity |-> RoundDiv(Scale * Cardinality(transactions),
                                          VELOCITY_DAYS)]

\* compute_fingerprint asking for 2 transactions in place of 3.
compute_fingerprint_two(account_id) ==
    LET transactions == get_account_transactions(account_id)
    IN  IF Cardinality(transactions) < 2 THEN NoFingerprint
        ELSE [present |-> TRUE,
              hour_vector |-> HourShares(transactions),
              amount_mean |-> RoundDiv(SumAmounts(transactions),
                                       Cardinality(transactions)),
              amount_std |-> AmountStd(transactions),
              daily_velocity |-> RoundDiv(Scale * Cardinality(transactions),
                                          VELOCITY_DAYS)]

\* compute_fingerprint(account_id): None (NoFingerprint) under 3 transactions.
compute_fingerprint(account_id) ==
    LET transactions == get_account_transactions(account_id)
    IN  IF Cardinality(transactions) < 3 THEN NoFingerprint
        ELSE [present |-> TRUE,
              hour_vector |-> HourShares(transactions),
              amount_mean |-> RoundDiv(SumAmounts(transactions),
                                       Cardinality(transactions)),
              amount_std |-> AmountStd(transactions),
              daily_velocity |-> RoundDiv(Scale * Cardinality(transactions),
                                          VELOCITY_DAYS)]

\* run_all_accounts, lines 129-136: the accounts, in no stated order.
RebuildList ==
    /\ rebuild.pc = "idle"
    /\ rebuild' = [rebuild EXCEPT !.pc = "loop", !.todo = Accounts,
                                  !.success = 0, !.skipped = 0]
    /\ UNCHANGED <<store, procs, probe, sims, rng>>

\* Line 139: compute_fingerprint on the next account.
RebuildCompute ==
    /\ rebuild.pc = "loop"
    /\ \E a \in rebuild.todo :
           rebuild' = [rebuild EXCEPT !.pc = "computed", !.account_id = a,
                                      !.todo = @ \ {a},
                                      !.fingerprint = compute_fingerprint(a)]
    /\ UNCHANGED <<store, procs, probe, sims, rng>>

\* Lines 140-142: a fingerprint was returned; save_fingerprint writes it.
RebuildSave ==
    /\ rebuild.pc = "computed"
    /\ rebuild.fingerprint # NoFingerprint
    /\ fingerprint' =
           [fingerprint EXCEPT ![rebuild.account_id] = rebuild.fingerprint]
    /\ rebuild' = [rebuild EXCEPT !.pc = "loop", !.success = @ + 1]
    /\ UNCHANGED <<is_fraud, txns, drift_score, contamination_score, zone,
                   hop_distance, last_updated, origin, procs, probe, sims, rng>>

\* Lines 143-144: None was returned; the account is skipped.
RebuildSkip ==
    /\ rebuild.pc = "computed"
    /\ rebuild.fingerprint = NoFingerprint
    /\ rebuild' = [rebuild EXCEPT !.pc = "loop", !.skipped = @ + 1]
    /\ UNCHANGED <<store, procs, probe, sims, rng>>

\* Lines 149-151: the loop is over; the counts are printed.
RebuildFinish ==
    /\ rebuild.pc = "loop"
    /\ rebuild.todo = {}
    /\ rebuild' = [rebuild EXCEPT !.pc = "done"]
    /\ UNCHANGED <<store, procs, probe, sims, rng>>

\* The transactions the generator may have created for accounts 1 and 2, as
\* <<id, sender, amount, hour, in_window>>: account 1 sent three within the
\* window and one before it, account 2 three at three hours.
HistoryPool ==
    {<<11, 1, 7550, 9, TRUE>>, <<12, 1, 10000, 9, TRUE>>,
     <<13, 1, 12450, 14, TRUE>>, <<14, 1, 10000, 23, FALSE>>,
     <<15, 2, 5000, 0, TRUE>>, <<16, 2, 5000, 12, TRUE>>,
     <<17, 2, 5000, 23, TRUE>>}

\* The Transaction node of an entry of the pool.
HistoryTxn(h) ==
    [id |-> h[1], sender |-> h[2], receiver |-> h[2] + 1, amount |-> h[3],
     hour |-> h[4], today |-> FALSE, in_window |-> h[5]]

\* Account 2 holds a fingerprint from an earlier rebuild; account 1 may.
InitFingerprint ==
    /\ \E history \in SUBSET HistoryPool, fp1 \in {NoFingerprint, FpSparse} :
           SeededStore(AccountIds, {FraudAccount},
                       {HistoryTxn(h) : h \in history},
                       [NoFingerprints EXCEPT ![1] = fp1, ![2] = FpBusy])
    /\ IdleProcs
    /\ probe = [op |-> "none"]

NextFingerprint ==
    \/ RebuildList
    \/ RebuildCompute
    \/ RebuildSave
    \/ RebuildSkip
    \/ RebuildFinish

SpecFingerprint == InitFingerprint /\ [][NextFingerprint]_vars

(***************************************************************************)
(* src/engine/contamination.py: simulate_temporal_risk.  The random module *)
(* is one generator for the whole process; it is modelled as a full-period *)
(* congruential generator: seeding fixes its state, every draw advances    *)
(* it, and the value drawn is a function of the state reached.             *)
(***************************************************************************)
\* The number of states of the modelled generator.
RNG_STATES == 8

\* random.seed(random_seed), line 193.
SeedState(random_seed) == random_seed % RNG_STATES

\* The state after one draw.
NextState(state) == (5 * state + 3) % RNG_STATES

\* random.random() as drawn on reaching `state`: a value of [0, 1).
RandomValue(state) == (Scale * state) \div RNG_STATES

\* random.uniform(0.2, 0.6) = 0.2 + 0.4 * random.random().
UniformValue(state) == 2000 + (4000 * state) \div RNG_STATES

\* The sequences that list every element of S once.
Orderings(S) ==
    {order \in [1 .. Cardinality(S) -> S] :
        \A j, k \in 1 .. Cardinality(S) : order[j] = order[k] => j = k}

\* An account's risk0, and with it prev_risk, is counted in 1e-5 units: a
\* caller may give a risk0 that is no 4-decimal value, and lines 237-242
\* round it for the record only.
Finer == 10

\* A 4-decimal value in 1e-5 units.
ToFiner(x) == IF x = NaN THEN NaN ELSE Finer * x

\* round(x, 4) of a value in 1e-5 units.
RoundFiner(x) == IF x = NaN THEN NaN ELSE RoundDiv(x, Finer)

\* classify_zone of a value x in 1e-5 units: x is at or above a 4-decimal
\* threshold exactly when x rounded down to 4 decimals is.
classify_zone_finer(x) ==
    classify_zone(IF x = NaN THEN NaN ELSE x \div Finer)

\* Lines 221-234, enrichment of an account the caller gave, where a key the
\* dict lacks (or holds None for hop_distance and risk0) is None here.  The
\* hop distance is looked up once, as line 223 does.
EnrichGiven(acc) ==
    LET base_drift == IF acc.base_drift # None THEN acc.base_drift
                      ELSE IF acc.drift_score # None THEN acc.drift_score
                      ELSE 0
    IN  CHOOSE enriched \in
            {[account_id |-> acc.account_id, hop_distance |-> hop,
              base_drift |-> base_drift,
              risk0 |-> IF acc.risk0 = None
                        THEN ToFiner(compute_contamination_score(hop,
                                                                 base_drift))
                        ELSE acc.risk0] :
                hop \in {IF acc.hop_distance = None
                         THEN get_hop_distance(acc.account_id)
                         ELSE acc.hop_distance}} : TRUE

\* Lines 209-217, enrichment of an account read from the store, the hop
\* distance looked up once, as line 210 does.
EnrichStored(acc) ==
    CHOOSE enriched \in
        {[account_id |-> acc.account_id, hop_distance |-> hop,
          base_drift |-> acc.base_drift,
          risk0 |-> ToFiner(compute_contamination_score(hop,
                                                        acc.base_drift))] :
            hop \in {get_hop_distance(acc.account_id)}} : TRUE

\* Lines 238-245 with the step-0 record marked as no signal.
StepZeroRecord_no_signal(acc) ==
    [account_id |-> acc.account_id, step |-> 0,
     risk_score |-> RoundFiner(acc.risk0),
     zone |-> classify_zone_finer(acc.risk0),
     drift_score |-> acc.base_drift, signal |-> FALSE]

\* Lines 238-245: the step-0 record, with round(prev_risk, 4) as risk_score
\* and classify_zone(prev_risk) as zone.
StepZeroRecord(acc) ==
    [account_id |-> acc.account_id, step |-> 0,
     risk_score |-> RoundFiner(acc.risk0),
     zone |-> classify_zone_finer(acc.risk0),
     drift_score |-> acc.base_drift, signal |-> TRUE]

\* Line 248 with <= in the place of < in the random test.
RandomSignal_le(state, signal_probability) ==
    RandomValue(state) <= signal_probability

\* Line 248: random.random() < signal_probability.
RandomSignal(state, signal_probability) ==
    RandomValue(state) < signal_probability

\* Line 250: max(base, min(1.0, base + random.uniform(0.2, 0.6))).
SignalDrift(base, state) ==
    PyMax(base, PyMin(Scale, IF base = NaN THEN NaN
                             ELSE base + UniformValue(state)))

\* Lines 253-254: round(prev_risk * (1.0 - decay_rate), 4), prev_risk being
\* in 1e-5 units.
DecayedRisk(prev_risk, decay_rate) ==
    IF prev_risk = NaN THEN NaN
    ELSE RoundDiv(prev_risk * (Scale - decay_rate), Scale * Finer)

\* Lines 247-262, iteration t of an account: the record appended and the
\* state the generator is left in.  The draw of line 248 is made only when
\* the drift is below the threshold, the draw of line 250 only on a signal.
StepOutcome(call, acc, state) ==
    LET by_drift == FloatGe(acc.base_drift, call.drift_threshold)
        drawn == NextState(state)
        signal == by_drift \/ RandomSignal(drawn, call.signal_probability)
        tested == IF by_drift THEN state ELSE drawn
        risk_t == IF signal
                  THEN compute_contamination_score(
                           acc.hop_distance,
                           SignalDrift(acc.base_drift, NextState(tested)))
                  ELSE DecayedRisk(call.prev_risk, call.decay_rate)
    IN  [record |-> [account_id |-> acc.account_id, step |-> call.t,
                     risk_score |-> risk_t, zone |-> classify_zone(risk_t),
                     drift_score |-> acc.base_drift, signal |-> signal],
         state |-> IF signal THEN NextState(tested) ELSE tested]

\* Lines 193-207: the call seeds the random module; without an account list
\* it reads the non-fraud accounts and their drift scores, in the order the
\* store returns them.
SimCall(c) ==
    /\ sims[c].pc = "idle"
    /\ rng' = SeedState(sims[c].random_seed)
    /\ IF sims[c].from_store
       THEN \E order \in Orderings({a \in Accounts : ~is_fraud[a]}) :
                sims' = [sims EXCEPT
                    ![c].pc = "seeded",
                    ![c].accounts =
                        [j \in DOMAIN order |->
                            [account_id |-> order[j],
                             base_drift |-> drift_score[order[j]]]]]
       ELSE sims' = [sims EXCEPT ![c].pc = "seeded",
                                 ![c].accounts = sims[c].given]
    /\ UNCHANGED <<store, procs, probe, rebuild>>

\* Lines 208-235 with the hop distance found written back to the account.
SimEnrich_persists(c) ==
    /\ sims[c].pc = "seeded"
    /\ sims' = [sims EXCEPT
           ![c].pc = "loop", ![c].i = 1, ![c].t = 0,
           ![c].accounts =
               [j \in DOMAIN sims[c].accounts |->
                   IF sims[c].from_store
                   THEN EnrichStored(sims[c].accounts[j])
                   ELSE EnrichGiven(sims[c].accounts[j])]]
    /\ hop_distance' =
           [a \in Accounts |->
               IF \E j \in DOMAIN sims[c].accounts :
                      sims[c].accounts[j].account_id = a
               THEN get_hop_distance(a) ELSE hop_distance[a]]
    /\ UNCHANGED <<is_fraud, txns, fingerprint, drift_score,
                   contamination_score, zone, last_updated, origin, procs,
                   probe, rebuild, rng>>

\* Lines 208-235: every account gets its hop distance and its risk0.
SimEnrich(c) ==
    /\ sims[c].pc = "seeded"
    /\ sims' = [sims EXCEPT
           ![c].pc = "loop", ![c].i = 1, ![c].t = 0,
           ![c].accounts =
               [j \in DOMAIN sims[c].accounts |->
                   IF sims[c].from_store
                   THEN EnrichStored(sims[c].accounts[j])
                   ELSE EnrichGiven(sims[c].accounts[j])]]
    /\ UNCHANGED <<store, procs, probe, rebuild, rng>>

\* Where the loops of lines 236 and 246 stand after the record of step t.
Advance(call) ==
    IF call.t = call.steps \/ call.steps < 0
    THEN [call EXCEPT !.i = @ + 1, !.t = 0]
    ELSE [call EXCEPT !.t = @ + 1]

\* Lines 236-263: one record is appended, the step-0 record of the account
\* or the record of its iteration t.
SimStep(c) ==
    /\ sims[c].pc = "loop"
    /\ sims[c].i <= Len(sims[c].accounts)
    /\ LET call == sims[c]
           acc == call.accounts[call.i]
           outcome == StepOutcome(call, acc, rng)
       IN  IF call.t = 0
           THEN /\ sims' = [sims EXCEPT ![c] =
                       Advance([call EXCEPT
                           !.prev_risk = acc.risk0,
                           !.results = Append(@, StepZeroRecord(acc))])]
                /\ rng' = rng
           ELSE /\ sims' = [sims EXCEPT ![c] =
                       Advance([call EXCEPT
                           !.prev_risk = ToFiner(outcome.record.risk_score),
                           !.results = Append(@, outcome.record)])]
                /\ rng' = outcome.state
    /\ UNCHANGED <<store, procs, probe, rebuild>>

\* Lines 264-289: the loops are over; the records are returned.
SimReturn(c) ==
    /\ sims[c].pc = "loop"
    /\ sims[c].i > Len(sims[c].accounts)
    /\ sims' = [sims EXCEPT ![c].pc = "done"]
    /\ UNCHANGED <<store, procs, probe, rebuild, rng>>

\* The calls made: the keyword arguments of simulate_temporal_risk.
StepInputs == 0 .. MaxSteps
DecayInputs == {0, 2000}
SignalProbabilityInputs == {0, 2500, Scale}
ThresholdInputs == {6000}
SeedInputs == {42, 7}

\* An accounts argument: a dict per account, None for a key it lacks.
GivenAccount(account_id, hop, base_drift, drift, risk0) ==
    [account_id |-> account_id, hop_distance |-> hop,
     base_drift |-> base_drift, drift_score |-> drift, risk0 |-> risk0]

\* accounts=None, one account known by its drift_score only, or one account
\* given with its hop distance, its base drift and a risk0 of the caller's:
\* 0.9, or 0.74996, which is no 4-decimal value.
AccountsInputs ==
    {[from_store |-> TRUE, given |-> <<>>],
     [from_store |-> FALSE,
      given |-> <<GivenAccount(1, None, None, 2000, None)>>],
     [from_store |-> FALSE,
      given |-> <<GivenAccount(2, 1, 3000, None, 90000)>>],
     [from_store |-> FALSE,
      given |-> <<GivenAccount(2, 1, 3000, None, 74996)>>]}

\* The drift scores the accounts hold when the simulation is called; nan is
\* the drift score a transaction event of amount nan leaves.
SimDrifts ==
    {[a \in AccountIds |-> IF a = 1 THEN d ELSE 7000] : d \in {0, 5000, NaN}}

\* Two calls with the same arguments but for the seed, which may differ.
InitSim ==
    /\ \E drifts \in SimDrifts :
           SeededStoreWith(AccountIds, {FraudAccount}, GraphConnected,
                           NoFingerprints, drifts)
    /\ req = [r \in Requests |-> IdleRequest]
    /\ pass = IdlePass
    /\ reports = <<>>
    /\ rebuild = IdleRebuild
    /\ rng = 0
    /\ probe = [op |-> "none"]
    /\ \E steps \in StepInputs, decay_rate \in DecayInputs,
          signal_probability \in SignalProbabilityInputs,
          drift_threshold \in ThresholdInputs,
          seeds \in [Calls -> SeedInputs], accounts \in AccountsInputs :
           sims = [c \in Calls |->
                      [IdleSim EXCEPT
                          !.steps = steps, !.decay_rate = decay_rate,
                          !.signal_probability = signal_probability,
                          !.drift_threshold = drift_threshold,
                          !.random_seed = seeds[c],
                          !.from_store = accounts.from_store,
                          !.given = accounts.given]]

SimNext(c) ==
    \/ SimCall(c)
    \/ SimEnrich(c)
    \/ SimStep(c)
    \/ SimReturn(c)

NextSim == \E c \in Calls : SimNext(c)

SpecSim == InitSim /\ [][NextSim]_vars

\* The calls of the API's defaults but for steps: decay 0.2 in the place of
\* 0.1, signal probability 0.25 in the place of 0.2, seed 42.
InitSimFair ==
    /\ InitSim
    /\ drift_score[1] = 0
    /\ \A c \in Calls :
           /\ sims[c].decay_rate = 2000
           /\ sims[c].signal_probability = 2500
           /\ sims[c].random_seed = 42

\* Each call runs on a thread of its own that the scheduler does not starve.
FairSpecSim ==
    InitSimFair /\ [][NextSim]_vars /\ \A c \in Calls : WF_vars(SimNext(c))

(***************************************************************************)
(* src/engine/contamination.py: apply_recovery.  current_contamination is  *)
(* counted in 1e-5 units, so that scores between two 4-decimal values are  *)
(* arguments too; the result is counted in 1e-7 units, the grid of         *)
(* current_contamination * 0.95.                                           *)
(***************************************************************************)
\* 0.2 of line 91, in the 1e-4 units of a drift score.
RECOVERY_DRIFT_LIMIT == 2000

\* 0.3 of line 93, in 1e-7 units.
RECOVERY_FLOOR == 3000000

\* math.exp(-RECOVERY_LAMBDA * days_clean) with RECOVERY_LAMBDA = 0.1, in
\* 1e-8 units, for the days the model calls it with.
RecoveryFactor(days_clean) ==
    CASE days_clean = 0 - 1 -> 110517092
      [] days_clean = 0 -> 100000000
      [] days_clean = 1 -> 90483742
      [] days_clean = 2 -> 81873075
      [] days_clean = 5 -> 60653066
      [] days_clean = 7 -> 49658530
      [] days_clean = 30 -> 4978707

\* round(current * factor, 4) in 1e-4 units, for current >= 0 in 1e-5 units
\* and factor in 1e-8 units: the product is taken in two halves of the
\* factor, to stay within 32 bits, and rounded to the nearest, ties to even:
\* the one midpoint among the products of the model is 0.03125 * 1.0, which
\* is a double, so that round meets it exactly.
RoundDecayed(current, factor) ==
    LET high == current * (factor \div Scale)
        low == current * (factor % Scale)
        whole == high + (low \div Scale)
        rest == low % Scale
        q == whole \div 100000
        r == whole % 100000
    IN  IF r < 50000 THEN q
        ELSE IF r > 50000 \/ rest > 0 THEN q + 1
        ELSE IF q % 2 = 0 THEN q ELSE q + 1

\* apply_recovery with the hold branch taken for a drift of 0.2 too.
apply_recovery_holds_at_limit(current_contamination, drift, days_clean) ==
    IF FloatGe(drift, RECOVERY_DRIFT_LIMIT)
    THEN PyMax(IF current_contamination = NaN THEN NaN
               ELSE current_contamination * 95, RECOVERY_FLOOR)
    ELSE IF current_contamination = NaN THEN NaN
    ELSE IF current_contamination < 0 THEN 0
    ELSE 1000 * RoundDecayed(current_contamination,
                             RecoveryFactor(days_clean))

\* apply_recovery(current_contamination, drift_score, days_clean), the
\* drift_score argument being `drift` here: line 93
\* is max(current * 0.95, 0.3); lines 96-97 are round(max(decayed, 0.0), 4),
\* where a negative current gives a negative decayed and so 0.0.
apply_recovery(current_contamination, drift, days_clean) ==
    IF FloatLt(RECOVERY_DRIFT_LIMIT, drift)
    THEN PyMax(IF current_contamination = NaN THEN NaN
               ELSE current_contamination * 95, RECOVERY_FLOOR)
    ELSE IF current_contamination = NaN THEN NaN
    ELSE IF current_contamination < 0 THEN 0
    ELSE 1000 * RoundDecayed(current_contamination,
                             RecoveryFactor(days_clean))

\* The arguments apply_recovery is called with: scores on and off the
\* 4-decimal grid, a negative one and nan; drifts about 0.2; days.
RecoveryCurrentInputs ==
    {NaN, 0 - 50000, 0, 1, 3125, 12346, 20000, 29999, 31579, 50010, 64000,
     99996, 100000}
RecoveryDriftInputs == {NaN, 0, 1999, 2000, 2001, 5000, Scale}
DaysCleanInputs == {0 - 1, 0, 1, 2, 5, 7, 30}

\* A caller evaluates apply_recovery on the arguments chosen at the start.
RecoveryCall ==
    /\ probe.op = "recovery_args"
    /\ probe' = [op |-> "recovery", current |-> probe.current,
                 drift |-> probe.drift, days |-> probe.days,
                 result |-> apply_recovery(probe.current, probe.drift,
                                           probe.days)]
    /\ UNCHANGED <<store, procs, tools>>

InitRecovery ==
    /\ SeededStore({}, {}, {}, <<>>)
    /\ IdleProcs
    /\ \E current \in RecoveryCurrentInputs, drift \in RecoveryDriftInputs,
          days \in DaysCleanInputs :
           probe = [op |-> "recovery_args", current |-> current,
                    drift |-> drift, days |-> days]

NextRecovery == RecoveryCall

SpecRecovery == InitRecovery /\ [][NextRecovery]_vars

(***************************************************************************)
(* The batch pass with a graph store whose reads and writes may fail.  The *)
(* loop of lines 151-153 has no try: the driver's exception leaves         *)
(* update_account_risk and run_full_contamination_pass.                    *)
(***************************************************************************)
\* Line 107: the read of get_hop_distance fails for the next account.
PassScoreFails ==
    /\ pass.pc = "loop"
    /\ \E a \in pass.todo :
           pass' = [pass EXCEPT !.pc = "raised", !.account_id = a]
    /\ UNCHANGED <<store, req, reports, probe, tools>>

\* Lines 111-122: the SET statement fails; nothing is written.
PassWriteFails ==
    /\ pass.pc = "write"
    /\ pass' = [pass EXCEPT !.pc = "raised"]
    /\ UNCHANGED <<store, req, reports, probe, tools>>

NextPassFaulty ==
    \/ PassList
    \/ PassScore
    \/ PassWrite
    \/ PassFinish
    \/ PassScoreFails
    \/ PassWriteFails

SpecPassFaulty == InitPass /\ [][NextPassFaulty]_vars

(***************************************************************************)
(* Claims about the scoring functions, checked under SpecScore.            *)
(***************************************************************************)
\* The structural score the claim C1 states for a hop, in 1e-4 units.
C1_Structural(hop) ==
    IF hop = None THEN 0
    ELSE IF hop = 1 THEN 10000
    ELSE IF hop = 2 THEN 6000
    ELSE IF hop = 3 THEN 3000
    ELSE IF hop = 4 THEN 1000
    ELSE 500

\* C1: for every hop and every drift in [0,1] the returned score is
\* min(0.6*s + 0.4*drift, 1.0) rounded to 4 decimals, s being 1.0, 0.6, 0.3,
\* 0.1 for hops 1..4, 0.05 for any other hop and 0.0 for None; (1, 0.8) gives
\* 0.92, (4, 0.0) gives 0.06 and (None, 0.5) gives 0.2.  The exact value is
\* counted in 1e-5 units; the result is the nearest multiple of 1e-4.
C1_ScoreFormula ==
    probe.op = "score" =>
        LET exact == 6 * C1_Structural(probe.hop) + 4 * probe.drift
            capped == IF exact > 100000 THEN 100000 ELSE exact
        IN  /\ 10 * probe.risk - capped \in -4 .. 4
            /\ (probe.hop = 1 /\ probe.drift = 8000) => probe.risk = 9200
            /\ (probe.hop = 4 /\ probe.drift = 0) => probe.risk = 600
            /\ (probe.hop = None /\ probe.drift = 5000) => probe.risk = 2000

C1_Witness ==
    /\ probe.op = "score"
    /\ probe.hop = None
    /\ probe.drift = 5000
    /\ probe.risk = 2000

\* C2: classify_zone returns exactly one zone for every risk in [0,1]:
\* Clean on [0, 0.45), Exposed on [0.45, 0.75), Critical on [0.75, 1.0].
C2_ZonePartition ==
    probe.op = "zone" =>
        /\ probe.zone \in {"Clean", "Exposed", "Critical"}
        /\ probe.zone = "Clean" <=> (0 <= probe.risk /\ probe.risk < 4500)
        /\ probe.zone = "Exposed" <=> (4500 <= probe.risk /\ probe.risk < 7500)
        /\ probe.zone = "Critical" <=> (7500 <= probe.risk /\ probe.risk <= 10000)

C2_Witness ==
    /\ probe.op = "zone"
    /\ probe.risk = 4500
    /\ probe.zone = "Exposed"

\* C3: for a fixed drift the score does not increase as the hop goes
\* 1, 2, 3, 4; for a fixed hop (1..4 or None) it does not decrease as the
\* drift grows.  Each computed score is compared with the score of every
\* farther hop, and with the scores of the next drift on the grid and of
\* every larger sampled drift.
C3_Monotone ==
    (probe.op = "score" /\ probe.hop \in {None, 1, 2, 3, 4}) =>
        /\ \A hop2 \in 1 .. 4 :
               (probe.hop # None /\ hop2 >= probe.hop) =>
                   compute_contamination_score(hop2, probe.drift) <= probe.risk
        /\ \A drift2 \in DriftSamples \cup ({probe.drift + 1} \cap DriftInputs) :
               drift2 >= probe.drift =>
                   compute_contamination_score(probe.hop, drift2) >= probe.risk

C3_Witness ==
    /\ probe.op = "score"
    /\ probe.hop = 2
    /\ probe.drift = 5000
    /\ compute_contamination_score(3, probe.drift) < probe.risk
    /\ compute_contamination_score(probe.hop, 8000) > probe.risk

(***************************************************************************)
(* Claims about compute_drift_score, checked under SpecDrift.              *)
(***************************************************************************)
\* C5: compute_drift_score returns a value in [0,1] without raising for
\* arbitrary event inputs (any amount, any integer hour, any recent_count)
\* against any stored fingerprint, pathological ones included.
C5_DriftInUnitInterval ==
    probe.op = "drift" =>
        /\ probe.result # Raised
        /\ probe.result # NaN
        /\ probe.result >= 0
        /\ probe.result <= Scale

\* C17: for an account with no stored fingerprint compute_drift_score
\* returns exactly the neutral 0.5 for every event, without raising and
\* whatever the event's amount, hour and recent_count are.
C17_ColdStartNeutral ==
    (probe.op = "drift" /\ ~fingerprint[probe.account].present) =>
        probe.result = 5000

\* The call was made for an account without fingerprint, with an amount that
\* is not a number and an hour past the end of the day.
C17_Witness ==
    /\ probe.op = "drift"
    /\ fingerprint[probe.account] = NoFingerprint
    /\ probe.event.amount = NaN
    /\ probe.event.hour = 24
    /\ probe.result = 5000

(***************************************************************************)
(* Claims about get_hop_distance, checked under SpecHop.                   *)
(***************************************************************************)
\* The accounts that share a transaction with an account of S, as sender or
\* as receiver.
C6_Neighbours(S) ==
    {b \in Accounts :
        \E t \in txns : \/ (t.sender \in S /\ t.receiver = b)
                        \/ (t.receiver \in S /\ t.sender = b)}

RECURSIVE C6_Within(_, _)
\* The accounts at most k transaction hops from the account a.
C6_Within(a, k) ==
    IF k = 0 THEN {a}
    ELSE C6_Within(a, k - 1) \cup C6_Neighbours(C6_Within(a, k - 1))

\* Whether a confirmed-fraud account other than a is at most k hops from a.
C6_FraudWithin(a, k) ==
    \E f \in C6_Within(a, k) : is_fraud[f] /\ f # a

\* C6: get_hop_distance(a) is k in {1,2,3,4} exactly when the nearest
\* confirmed-fraud account other than a is k transaction hops away, and None
\* exactly when none is within 4 hops (8 relationships); it is never 0 nor
\* above 4.
C6_HopDistance ==
    probe.op = "hop" =>
        \A a \in Accounts :
            /\ probe.result[a] \in {None, 1, 2, 3, 4}
            /\ \A k \in 1 .. 4 :
                   probe.result[a] = k <=>
                       (C6_FraudWithin(a, k) /\ ~C6_FraudWithin(a, k - 1))
            /\ probe.result[a] = None <=> ~C6_FraudWithin(a, 4)

\* A chain of five transactions in mixed directions from the fraud account:
\* the accounts are 1, 2, 3 and 4 hops away and the last one is out of reach.
C6_Witness ==
    /\ probe.op = "hop"
    /\ Cardinality(txns) = 5
    /\ \E t \in txns : t.sender = 2 /\ t.receiver = 1
    /\ probe.result[2] = 1
    /\ probe.result[3] = 2
    /\ probe.result[4] = 3
    /\ probe.result[5] = 4
    /\ probe.result[6] = None
    /\ ~is_fraud[6]

(***************************************************************************)
(* Claims about the running system, checked under Spec.                    *)
(***************************************************************************)
\* Whether a stored score is a number of [0,1].
C4_InUnitInterval(x) == x # NaN /\ x >= 0 /\ x <= Scale

\* C4: in every reachable state, after any sequence of transaction events
\* and full contamination passes from the seeded graph, every account's
\* stored drift_score and contamination_score lie in [0,1].
C4_StoredScoresInUnitInterval ==
    \A a \in Accounts :
        /\ C4_InUnitInterval(drift_score[a])
        /\ C4_InUnitInterval(contamination_score[a])

\* C7: RiskState is written as one unit: in every reachable state each
\* account's stored zone is classify_zone of its stored contamination_score,
\* and its stored hop_distance, contamination_score and zone come from one
\* and the same invocation of update_account_risk.
C7_RiskStateAtomic ==
    \A a \in Accounts :
        /\ zone[a] = classify_zone(contamination_score[a])
        /\ origin[a].hop_distance = origin[a].contamination_score
        /\ origin[a].contamination_score = origin[a].zone
        /\ origin[a].zone = last_updated[a]

\* A pass is about to overwrite a RiskState that a request wrote, with
\* another zone.
C7_Witness ==
    /\ pass.pc = "write"
    /\ origin[pass.account_id].zone = RequestInvocation(1)
    /\ zone[pass.account_id] = "Critical"
    /\ pass.zone = "Exposed"

\* C8: transaction events for one sender are serialized, so that once they
\* have all completed (every amount a number, no pass having run) the
\* sender's stored contamination_score and zone are the ones computed from
\* its stored drift_score.
C8_NoLostUpdate ==
    ( /\ \A r \in Requests : req[r].pc \in {"done", "failed", "rejected"}
      /\ \A r \in Requests : req[r].amount # NaN
      /\ pass.pc = "idle"
      /\ pass.run = 0 ) =>
        \A r \in Requests :
            req[r].pc = "done" =>
                /\ contamination_score[req[r].sender] =
                       compute_contamination_score(
                           hop_distance[req[r].sender],
                           drift_score[req[r].sender])
                /\ zone[req[r].sender] =
                       classify_zone(compute_contamination_score(
                           hop_distance[req[r].sender],
                           drift_score[req[r].sender]))

\* C12: a transaction event whose sender_id matches no account is rejected
\* (HTTP 404) and mutates nothing: the step that rejects it changes no
\* account's drift_score, contamination_score, zone, hop_distance or
\* last_updated, and the rejected request takes no further step.
C12_UnknownSenderRejected ==
    [][ \A r \in Requests :
          /\ (req'[r].pc # "idle" /\ req'[r].sender \notin Accounts) =>
                 req'[r].pc = "rejected"
          /\ (req[r].pc # "rejected" /\ req'[r].pc = "rejected") =>
                 /\ drift_score' = drift_score
                 /\ contamination_score' = contamination_score
                 /\ zone' = zone
                 /\ hop_distance' = hop_distance
                 /\ last_updated' = last_updated
          /\ req[r].pc = "rejected" => req'[r] = req[r] ]_vars

\* One request was rejected for its unknown sender while another one, for a
\* known sender, was processed to the end.
C12_Witness ==
    /\ req[1].pc = "rejected"
    /\ req[1].sender = UnknownAccount
    /\ req[2].pc = "done"
    /\ last_updated[req[2].sender] = RequestInvocation(2)

(***************************************************************************)
(* Claims about the batch pass, checked under SpecPass.                    *)
(***************************************************************************)
\* C9: run_full_contamination_pass is idempotent: once a first pass has
\* completed, no step of a later pass changes any account's stored
\* contamination_score, zone or hop_distance, and the later pass prints the
\* counts the pass before it printed.
C9_Idempotent ==
    [][ Len(reports) >= 1 =>
          /\ contamination_score' = contamination_score
          /\ zone' = zone
          /\ hop_distance' = hop_distance
          /\ Len(reports') > Len(reports) =>
                 reports'[Len(reports')] = reports[Len(reports)] ]_vars

\* A second pass has completed over a store in which the first one moved
\* accounts out of the Clean zone.
C9_Witness ==
    /\ Len(reports) = 2
    /\ reports[1].Critical >= 1
    /\ reports[1].Exposed >= 1
    /\ \E a \in Accounts : ~is_fraud[a] /\ hop_distance[a] = 2

\* The hop distance of an account: the least k in 1..4 with a confirmed-fraud
\* account other than a at most k hops away, None if there is none.
C10_Hop(a) ==
    IF ~C6_FraudWithin(a, 4) THEN None
    ELSE Least({k \in 1 .. 4 : C6_FraudWithin(a, k)})

\* The score of an account, from its own hop distance and stored drift.
C10_Score(a) == compute_contamination_score(C10_Hop(a), drift_score[a])

\* C10: run_full_contamination_pass is order-independent: in whatever order
\* the accounts were taken, a completed pass leaves every non-fraud account
\* with the RiskState computed from that account's own hop distance and
\* stored drift, and prints the per-zone counts of these.
C10_OrderIndependent ==
    (Len(reports) >= 1 /\ pass.pc = "idle") =>
        /\ \A a \in Accounts :
               ~is_fraud[a] =>
                   /\ hop_distance[a] = C10_Hop(a)
                   /\ contamination_score[a] = C10_Score(a)
                   /\ zone[a] = classify_zone(C10_Score(a))
        /\ \A z \in {"Critical", "Exposed", "Clean"} :
               reports[Len(reports)][z] =
                   Cardinality({a \in Accounts :
                       ~is_fraud[a] /\ classify_zone(C10_Score(a)) = z})

\* A pass has completed that took account 2 before account 1, and one that
\* took account 1 before account 2 would have found account 1 Critical.
C10_Witness ==
    /\ Len(reports) = 1
    /\ pass.pc = "idle"
    /\ pass.account_id = 1
    /\ zone[1] = "Critical"
    /\ hop_distance[2] = 2
    /\ zone[2] = "Exposed"

\* The accounts that the pass now running, or the last one, has updated.
C19_Updated ==
    {a \in Accounts :
        last_updated[a] =
            PassInvocation(IF pass.pc = "idle" THEN pass.run ELSE pass.run + 1)}

\* C19: run_full_contamination_pass updates every account with
\* is_fraud = false exactly once, from the drift score stored for it, leaves
\* the stored state of every confirmed-fraud account unchanged, and reports
\* counts that sum to the number of non-fraud accounts, each the number of
\* those accounts whose zone the pass wrote as that zone.
C19_PassFrame ==
    /\ \A a \in Accounts :
           is_fraud[a] =>
               /\ last_updated[a] = SeedInvocation
               /\ contamination_score[a] = Scale
               /\ zone[a] = "Critical"
               /\ hop_distance[a] = None
               /\ drift_score[a] = 0
    /\ pass.pc \in {"loop", "write"} =>
           /\ C19_Updated = {a \in Accounts : ~is_fraud[a]} \ pass.todo
           /\ pass.pc = "write" => pass.account_id \in pass.todo
    /\ (pass.pc = "idle" /\ pass.run >= 1) =>
           /\ C19_Updated = {a \in Accounts : ~is_fraud[a]}
           /\ \A a \in C19_Updated :
                  contamination_score[a] =
                      compute_contamination_score(hop_distance[a],
                                                  drift_score[a])
           /\ reports[pass.run].Critical + reports[pass.run].Exposed
                  + reports[pass.run].Clean =
                  Cardinality({a \in Accounts : ~is_fraud[a]})
           /\ \A z \in {"Critical", "Exposed", "Clean"} :
                  reports[pass.run][z] =
                      Cardinality({a \in C19_Updated : zone[a] = z})

\* A pass has completed that wrote one account Critical and one Exposed.
C19_Witness ==
    /\ pass.pc = "idle"
    /\ pass.run = 1
    /\ reports[1] = [Critical |-> 1, Exposed |-> 1, Clean |-> 0]
    /\ last_updated[1] = PassInvocation(1)
    /\ last_updated[2] = PassInvocation(1)

(***************************************************************************)
(* Claims about the batch pass over a failing store, checked under         *)
(* SpecPassFaulty.                                                         *)
(***************************************************************************)
\* C11: a graph-store failure during one account's step abandons only that
\* account's update: the pass is never left by the failure, it goes on with
\* the accounts that remain and prints its counts.
C11_PassSurvivesFailure ==
    pass.pc = "raised" => (pass.todo = {} /\ Len(reports) > pass.run)

(***************************************************************************)
(* Claims about the fingerprint rebuild, checked under SpecFingerprint.    *)
(***************************************************************************)
\* The transactions an account sent within the lookback window.
C13_Sent(a) == {t \in txns : t.sender = a /\ t.in_window}

\* C13: compute_fingerprint returns no fingerprint exactly when the account
\* sent fewer than 3 transactions within the window, and the rebuild then
\* writes nothing (every stored fingerprint stays as it was) and counts the
\* account as skipped, not as computed.
C13_InsufficientHistory ==
    [][ /\ rebuild'.pc = "computed" =>
              (rebuild'.fingerprint = NoFingerprint <=>
                   Cardinality(C13_Sent(rebuild'.account_id)) < 3)
        /\ (rebuild.pc = "computed"
               /\ Cardinality(C13_Sent(rebuild.account_id)) < 3) =>
              /\ fingerprint' = fingerprint
              /\ rebuild'.skipped = rebuild.skipped + 1
              /\ rebuild'.success = rebuild.success ]_vars

\* A rebuild has finished in which account 2, with 2 transactions, kept the
\* fingerprint it had and account 1, with 3, got one.
C13_Witness ==
    /\ rebuild.pc = "done"
    /\ Cardinality(C13_Sent(2)) = 2
    /\ fingerprint[2] = FpBusy
    /\ Cardinality(C13_Sent(1)) = 3
    /\ fingerprint[1] = FpSparse
    /\ rebuild.success = 1
    /\ rebuild.skipped >= 2

RECURSIVE C20_SumTo(_, _)
\* The sum of the first n entries of a vector.
C20_SumTo(vector, n) ==
    IF n = 0 THEN 0 ELSE vector[n] + C20_SumTo(vector, n - 1)

\* Whether a built hour_vector has 24 entries, each the share of the
\* account's sent transactions at that hour (to 4 decimals).
C20_Shares(a, vector) ==
    /\ Len(vector) = 24
    /\ \A i \in 1 .. 24 :
           LET count == Cardinality({t \in C13_Sent(a) : t.hour = i - 1})
               total == Cardinality(C13_Sent(a))
           IN  /\ 2 * (vector[i] * total - Scale * count) <= total
               /\ 2 * (Scale * count - vector[i] * total) <= total

C14_Enriched == {c \in Calls : sims[c].pc \in {"loop", "done"}}

\* The position of the step-0 record of the j-th account of call c.
C14_StepZeroAt(c, j) == (j - 1) * (sims[c].steps + 1) + 1

\* The risk0 of the j-th account of call c, to 4 decimals: the caller's
\* where the caller gave one, else the score of the account's hop distance
\* and base drift.
C14_Risk0(c, j) ==
    LET acc == sims[c].accounts[j]
    IN  IF ~sims[c].from_store /\ sims[c].given[j].risk0 # None
        THEN RoundFiner(sims[c].given[j].risk0)
        ELSE compute_contamination_score(acc.hop_distance, acc.base_drift)

\* C14 as stated: the step-0 record of every account has signal = true and
\* risk_score = compute_contamination_score(hop_distance, base_drift).
C14_StepZeroIsComputedRisk ==
    \A c \in C14_Enriched : \A j \in DOMAIN sims[c].accounts :
        C14_StepZeroAt(c, j) <= Len(sims[c].results) =>
            LET record == sims[c].results[C14_StepZeroAt(c, j)]
                acc == sims[c].accounts[j]
            IN  /\ record.step = 0
                /\ record.signal
                /\ record.risk_score =
                       compute_contamination_score(acc.hop_distance,
                                                   acc.base_drift)

\* C14 amended: the step-0 record of every account has signal = true and
\* the account's risk0, rounded to 4 decimals, as risk_score, risk0 being
\* the risk0 the caller gave for the account if it gave one, and otherwise
\* compute_contamination_score(hop_distance, base_drift), whatever the
\* decay rate, signal probability, threshold and seed.
C14_StepZeroIsRisk0 ==
    \A c \in C14_Enriched : \A j \in DOMAIN sims[c].accounts :
        C14_StepZeroAt(c, j) <= Len(sims[c].results) =>
            LET record == sims[c].results[C14_StepZeroAt(c, j)]
            IN  /\ record.step = 0
                /\ record.account_id = sims[c].accounts[j].account_id
                /\ record.signal
                /\ record.risk_score = C14_Risk0(c, j)

\* A finished call whose caller gave a risk0 that is not the score of the
\* account's hop distance and base drift: step 0 records the caller's.
C14_Witness ==
    /\ sims[1].pc = "done" /\ ~sims[1].from_store /\ sims[1].steps = 2
    /\ sims[1].given[1].risk0 = 90000
    /\ Len(sims[1].results) = 3
    /\ sims[1].results[1].step = 0 /\ sims[1].results[1].signal
    /\ sims[1].results[1].risk_score = 9000
    /\ compute_contamination_score(sims[1].accounts[1].hop_distance,
                                   sims[1].accounts[1].base_drift) = 7200

\* The account the k-th record of call c belongs to.
C15_AccountOf(c, k) == sims[c].accounts[((k - 1) \div (sims[c].steps + 1)) + 1]

\* The records of call c and their accounts to which the claim C15 applies.
C15_Applies(c, k) ==
    /\ sims[c].decay_rate = 0
    /\ sims[c].signal_probability = 0
    /\ FloatLt(C15_AccountOf(c, k).base_drift, sims[c].drift_threshold)

\* C15 as stated: with decay_rate = 0, signal_probability = 0 and an
\* account's base drift strictly below drift_threshold, no record of the
\* account at a step t >= 1 has a signal, and every record of the account,
\* at steps 0..steps, has the account's risk0 as risk_score.
C15_NoSignalPathRisk0 ==
    \A c \in C14_Enriched : \A k \in DOMAIN sims[c].results :
        C15_Applies(c, k) =>
            /\ sims[c].results[k].step >= 1 => ~sims[c].results[k].signal
            /\ ToFiner(sims[c].results[k].risk_score) =
                   C15_AccountOf(c, k).risk0

\* C15 amended: with decay_rate = 0, signal_probability = 0 and an
\* account's base drift strictly below drift_threshold, no record of the
\* account at a step t >= 1 has a signal, and every record of the account,
\* at steps 0..steps, has the same risk_score, the account's risk0 rounded
\* to 4 decimals, for every seed and number of steps.
C15_NoSignalPathConstant ==
    \A c \in C14_Enriched : \A k \in DOMAIN sims[c].results :
        LET record == sims[c].results[k]
            acc == C15_AccountOf(c, k)
        IN  C15_Applies(c, k)
            => /\ record.account_id = acc.account_id
               /\ record.step >= 1 => ~record.signal
               /\ record.risk_score = RoundFiner(acc.risk0)

\* Both calls are over, with decay 0 and signal probability 0, over the
\* stored accounts: account 1, of drift below the threshold, has its three
\* records, and the random module has been drawn from between them.
C15_Witness ==
    /\ \A c \in Calls : sims[c].pc = "done" /\ sims[c].from_store
    /\ sims[1].decay_rate = 0 /\ sims[1].signal_probability = 0
    /\ sims[1].steps = 2
    /\ sims[1].accounts[2].account_id = 1
    /\ FloatLt(sims[1].accounts[2].base_drift, sims[1].drift_threshold)
    /\ sims[1].results[4].step = 0 /\ sims[1].results[6].step = 2
    /\ sims[1].results[6].risk_score = sims[1].results[4].risk_score
    /\ sims[1].results[3].signal

\* C16: two finished calls with the same seed, the same accounts in the same
\* order and the same steps, decay_rate, signal_probability and
\* drift_threshold hold identical record sequences.
C16_Deterministic ==
    ( /\ sims[1].pc = "done" /\ sims[2].pc = "done"
      /\ sims[1].random_seed = sims[2].random_seed
      /\ sims[1].accounts = sims[2].accounts
      /\ sims[1].steps = sims[2].steps
      /\ sims[1].decay_rate = sims[2].decay_rate
      /\ sims[1].signal_probability = sims[2].signal_probability
      /\ sims[1].drift_threshold = sims[2].drift_threshold )
    => sims[1].results = sims[2].results

\* The stored fields a simulation leaves alone.
C18_Persisted ==
    <<drift_score, contamination_score, zone, hop_distance, fingerprint>>

C22_LaterRecords(c) ==
    {k \in DOMAIN sims[c].results : sims[c].results[k].step >= 1}

\* C22: at every step t >= 1 a signal fires whenever the account's base
\* drift >= drift_threshold, and on every signal step the risk is
\* compute_contamination_score(hop_distance, d) for a drift d with
\* base <= d <= 1.0: the score being monotone in the drift, a risk between
\* the scores of the drifts base and 1.0.
C22_SignalRecomputes ==
    \A c \in C14_Enriched : \A k \in C22_LaterRecords(c) :
        LET record == sims[c].results[k]
            acc == C15_AccountOf(c, k)
        IN  /\ FloatGe(acc.base_drift, sims[c].drift_threshold)
                   => record.signal
            /\ record.signal =>
                   /\ FloatGe(Scale, acc.base_drift)
                   /\ FloatGe(record.risk_score,
                              compute_contamination_score(acc.hop_distance,
                                                          acc.base_drift))
                   /\ FloatGe(compute_contamination_score(acc.hop_distance,
                                                          Scale),
                              record.risk_score)

\* C23: at every step t >= 1 where no signal fires, the recorded risk is
\* the previous step's recorded risk times (1 - decay_rate), rounded to 4
\* decimals, is not above the previous step's and is in [0,1].
C23_DecaySteps ==
    \A c \in C14_Enriched : \A k \in C22_LaterRecords(c) :
        LET record == sims[c].results[k]
            before == sims[c].results[k - 1]
        IN  ~record.signal =>
                /\ record.risk_score =
                       DecayedRisk(ToFiner(before.risk_score),
                                   sims[c].decay_rate)
                /\ FloatGe(before.risk_score, record.risk_score)
                /\ FloatGe(record.risk_score, 0)
                /\ FloatGe(Scale, record.risk_score)

\* C24: every record has zone = classify_zone(risk_score) for the
\* risk_score of the same record, and the account's base drift as
\* drift_score.
C24_RecordConsistent ==
    \A c \in C14_Enriched : \A k \in DOMAIN sims[c].results :
        /\ sims[c].results[k].zone =
               classify_zone(sims[c].results[k].risk_score)
        /\ sims[c].results[k].drift_score = C15_AccountOf(c, k).base_drift

(***************************************************************************)
(* Claims about apply_recovery, checked under SpecRecovery.                *)
(***************************************************************************)
\* The hold branch applies: drift_score > 0.2.
C21_Held == probe.op = "recovery" /\ FloatLt(RECOVERY_DRIFT_LIMIT, probe.drift)

\* The decay branch of the claim applies: drift_score <= 0.2, days >= 0.
C21_Decayed ==
    /\ probe.op = "recovery"
    /\ FloatGe(RECOVERY_DRIFT_LIMIT, probe.drift)
    /\ probe.days >= 0

\* The hold branch returns max(current * 0.95, 0.3) whatever the days.
C21_HoldValue ==
    C21_Held =>
        /\ probe.current # NaN =>
               probe.result = IF probe.current * 95 > RECOVERY_FLOOR
                              THEN probe.current * 95 ELSE RECOVERY_FLOOR
        /\ \A days \in DaysCleanInputs :
               apply_recovery(probe.current, probe.drift, days) = probe.result

\* C21 as stated: with drift_score > 0.2 the result is
\* max(current_contamination * 0.95, 0.3) whatever days_clean is; with
\* drift_score <= 0.2 and days_clean >= 0 it is never negative and never
\* above current_contamination.
C21_RecoveryBounded ==
    /\ C21_HoldValue
    /\ (C21_Decayed /\ probe.current # NaN) =>
           /\ probe.result >= 0
           /\ probe.result <= 100 * probe.current

\* C21 amended: with drift_score > 0.2 the result is
\* max(current_contamination * 0.95, 0.3) whatever days_clean is; with
\* drift_score <= 0.2, days_clean >= 0 and current_contamination >= 0 it is
\* never negative and never above current_contamination rounded to 4
\* decimals.
C21_RecoveryBoundedByRounded ==
    /\ C21_HoldValue
    /\ (C21_Decayed /\ probe.current # NaN /\ probe.current >= 0) =>
           /\ probe.result >= 0
           /\ probe.result <= 1000 * RoundDiv(probe.current, 10)

\* A clean account's score of 0.64 after 5 days: 0.64 * e^-0.5 = 0.3882.
C21_Witness ==
    /\ C21_Decayed
    /\ probe.current = 64000 /\ probe.drift = 2000 /\ probe.days = 5
    /\ probe.result = 3882000

(***************************************************************************)
(* Claims about transaction events and passes, checked under Spec.         *)
(***************************************************************************)
\* Request r was processed with nothing else running: no other request has
\* been received and no pass has started.
C25_Alone(r) ==
    /\ req[r].pc = "done"
    /\ \A q \in Requests \ {r} : req[q].pc = "idle"
    /\ pass.pc = "idle" /\ pass.run = 0

\* The stored fields of account a are the seeded ones.
C25_AsSeeded(a) ==
    /\ drift_score[a] = 0
    /\ contamination_score[a] = IF is_fraud[a] THEN Scale ELSE 0
    /\ zone[a] = IF is_fraud[a] THEN "Critical" ELSE "Clean"
    /\ hop_distance[a] = None
    /\ last_updated[a] = SeedInvocation

\* The stored fields of account a are left alone by the step.
C25_Untouched(a) ==
    /\ drift_score'[a] = drift_score[a]
    /\ contamination_score'[a] = contamination_score[a]
    /\ zone'[a] = zone[a]
    /\ hop_distance'[a] = hop_distance[a]
    /\ last_updated'[a] = last_updated[a]

\* C25: a transaction event processed without interference leaves the
\* sender with drift_score = the computed drift d, contamination_score =
\* compute_contamination_score(get_hop_distance(sender), d) and the zone of
\* that score, and returns these values; every other account keeps its
\* seeded fields, and no step of a request changes another account's
\* stored fields, a fingerprint, a transaction or a fraud flag.
C25_EventFrame ==
    /\ [](\A r \in Requests :
             C25_Alone(r) =>
                 LET sender == req[r].sender
                     d == compute_drift_score(sender, NewTxn(r))
                     risk == compute_contamination_score(
                                 get_hop_distance(sender), d)
                 IN  /\ drift_score[sender] = d
                     /\ contamination_score[sender] = risk
                     /\ zone[sender] = classify_zone(risk)
                     /\ req[r].drift_score = d
                     /\ req[r].risk_score = risk
                     /\ req[r].zone = classify_zone(risk)
                     /\ req[r].hop_distance = get_hop_distance(sender)
                     /\ \A a \in Accounts \ {sender} : C25_AsSeeded(a))
    /\ [][\A r \in Requests :
              req'[r] # req[r] =>
                  /\ is_fraud' = is_fraud
                  /\ txns' = txns
                  /\ fingerprint' = fingerprint
                  /\ \A a \in Accounts \ {req'[r].sender} :
                         C25_Untouched(a)]_vars

\* Account 1, one hop from fraud, sent 100.00 at 9h as its fingerprint has
\* it: drift 0.1 and score 0.64 are stored and returned, account 2 is as
\* seeded.
C25_Witness ==
    /\ C25_Alone(1)
    /\ req[1].sender = 1 /\ fingerprint[1].present
    /\ drift_score[1] = req[1].drift_score
    /\ contamination_score[1] = req[1].risk_score
    /\ req[1].risk_score > 0
    /\ zone[1] = req[1].zone
    /\ C25_AsSeeded(2)

\* C26: once a pass and a transaction event for an account A that ran
\* concurrently have both completed, A's stored contamination_score is
\* compute_contamination_score(A's stored hop_distance, A's stored
\* drift_score) and A's zone is the zone of that score.
C26_PassAndEventConsistent ==
    ( /\ req[1].pc = "done" /\ req[1].amount # NaN
      /\ \A q \in Requests \ {1} : req[q].pc = "idle"
      /\ pass.pc = "idle" /\ pass.run = 1 ) =>
        LET A == req[1].sender
            risk == compute_contamination_score(hop_distance[A],
                                                drift_score[A])
        IN  /\ contamination_score[A] = risk
            /\ zone[A] = classify_zone(risk)

\* C27: a confirmed-fraud account keeps zone Critical and
\* contamination_score 1.0 after any sequence of passes and transaction
\* events.
C27_FraudKept ==
    \A a \in Accounts :
        is_fraud[a] => zone[a] = "Critical" /\ contamination_score[a] = Scale

====
